---- MODULE Spec2Model ----
(***************************************************************************)
(* A model of findColorPages.py: the page colour classifier is_color_page  *)
(* (content-stream scan, XObject loop, pixel tests) and the figure report  *)
(* find_figure_pages with its extractor extract_figure_info.               *)
(*                                                                         *)
(* Text is modelled as sequences of one-character strings, so that the     *)
(* regular expressions, str.strip, str.rstrip, str.split, float() and      *)
(* int() are computed on characters as the code computes them.             *)
(***************************************************************************)
EXTENDS Integers, Sequences, FiniteSets, TLC

VARIABLES
    \* ---- is_color_page(page, color_threshold, sample_threshold) ----
    page,              \* the page argument (content stream, resources)
    color_threshold,   \* argument, an integer channel delta
    sample_threshold,  \* argument, a fraction <<numerator, denominator>>
    pc,                \* "vectors" | "images" | "done" | "idle"
    idx,               \* position of the XObject loop (1-based)
    has_color,         \* the local has_color of line 19
    verdict,           \* the value returned ("none" until the return)
    why,               \* which return statement produced the verdict
    at,                \* the XObject being handled at the return (0: none)
    \* ---- find_figure_pages(pdf_path, output_file, page_offset) ----
    doc,               \* the file behind pdf_path and what fails on it
    page_offset,       \* argument
    fpc,               \* "open" | "scan" | "write" | "returned" | "idle"
    page_num,          \* loop variable of line 242 (0-based)
    figure_pages,      \* the list of line 232
    all_figures,       \* the list of line 233
    report,            \* figures written to "Detailed Figure Information"
    front_report,      \* figures written to "Figures in Front Matter"
    console,           \* the lines printed so far, by kind
    result,            \* the value returned ("none" until the return)
    escaped            \* TRUE when an exception left find_figure_pages

colorVars == <<page, color_threshold, sample_threshold, pc, idx, has_color,
               verdict, why, at>>
figVars == <<doc, page_offset, fpc, page_num, figure_pages, all_figures,
             report, front_report, console, result, escaped>>
vars == <<colorVars, figVars>>

----------------------------------------------------------------------------
(* Characters and numbers.                                                 *)

Digits == {"0", "1", "2", "3", "4", "5", "6", "7", "8", "9"}

\* The value of a decimal digit character, as float() and int() read it.
DigitVal(c) ==
    CASE c = "0" -> 0 [] c = "1" -> 1 [] c = "2" -> 2 [] c = "3" -> 3
      [] c = "4" -> 4 [] c = "5" -> 5 [] c = "6" -> 6 [] c = "7" -> 7
      [] c = "8" -> 8 [] c = "9" -> 9

\* Python's \s on the characters the model uses.
IsSpace(c) == c \in {" ", "\n", "\r", "\t"}

\* Python's \w: letters, digits and the underscore.
NonWordChars == {" ", "\n", "\r", "\t", ".", "-", "/"}
IsWordChar(c) == c \notin NonWordChars

RECURSIVE Pow10(_)
Pow10(n) == IF n = 0 THEN 1 ELSE 10 * Pow10(n - 1)

Max(a, b) == IF a >= b THEN a ELSE b
Min(a, b) == IF a <= b THEN a ELSE b
Abs(x) == IF x < 0 THEN 0 - x ELSE x

\* s[a..b] as a sequence (empty when b < a).
Slice(s, a, b) == [k \in 1..(b - a + 1) |-> s[a + k - 1]]

RECURSIVE Concat(_)
Concat(ss) == IF ss = <<>> THEN <<>> ELSE Head(ss) \o Concat(Tail(ss))

\* The digits of a text with its dot removed, read as an integer.
RECURSIVE Mantissa(_)
Mantissa(t) ==
    IF t = <<>> THEN 0
    ELSE IF t[Len(t)] = "." THEN Mantissa(SubSeq(t, 1, Len(t) - 1))
    ELSE 10 * Mantissa(SubSeq(t, 1, Len(t) - 1)) + DigitVal(t[Len(t)])

\* The number of digits after the dot.
FracLen(t) ==
    IF \E k \in 1..Len(t) : t[k] = "."
    THEN Len(t) - (CHOOSE k \in 1..Len(t) : t[k] = ".")
    ELSE 0

\* float(a) == float(b) for two decimal texts: equal values, whatever the
\* spelling ("1", "1.0", "01").
NumEq(a, b) == Mantissa(a) * Pow10(FracLen(b)) = Mantissa(b) * Pow10(FracLen(a))

\* Whether t is a number as the PDF syntax writes one without a sign:
\* digits with at most one dot and at least one digit ("1", "0.5", ".5", "1.").
IsPdfNumber(t) ==
    /\ Len(t) >= 1
    /\ \A k \in 1..Len(t) : t[k] \in Digits \cup {"."}
    /\ Cardinality({k \in 1..Len(t) : t[k] = "."}) <= 1
    /\ \E k \in 1..Len(t) : t[k] \in Digits

----------------------------------------------------------------------------
(* Lines 35-40: the four patterns of the content-stream scan.              *)

\* [0-9]*\.?[0-9]+ matched against the whole of t.
IsNumberText(t) ==
    /\ Len(t) >= 1
    /\ \A k \in 1..Len(t) : t[k] \in Digits \cup {"."}
    /\ Cardinality({k \in 1..Len(t) : t[k] = "."}) <= 1
    /\ t[Len(t)] \in Digits

\* \b at position p of s (before s[p]).
WordBoundary(s, p) ==
    LET before == p > 1 /\ IsWordChar(s[p - 1])
        after == p <= Len(s) /\ IsWordChar(s[p])
    IN before # after

\* The first position >= p that holds no digit and no dot: a number starting
\* at p, being followed by \s+, ends exactly there.
RECURSIVE RunEnd(_, _)
RunEnd(s, p) ==
    IF p <= Len(s) /\ s[p] \in Digits \cup {"."} THEN RunEnd(s, p + 1) ELSE p

\* \s+ from p: the first position after the run of white space (p itself when
\* there is none, which fails the match).
RECURSIVE SpaceEnd(_, _)
SpaceEnd(s, p) == IF p <= Len(s) /\ IsSpace(s[p]) THEN SpaceEnd(s, p + 1) ELSE p

\* n numbers, each followed by white space, from position p:
\* [ok, groups, next].
RECURSIVE MatchNumbers(_, _, _)
MatchNumbers(s, p, n) ==
    IF n = 0 THEN [ok |-> TRUE, groups |-> <<>>, next |-> p]
    ELSE LET e == RunEnd(s, p)
             q == SpaceEnd(s, e)
         IN IF e > p /\ IsNumberText(Slice(s, p, e - 1)) /\ q > e
            THEN LET rest == MatchNumbers(s, q, n - 1)
                 IN [ok |-> rest.ok,
                     groups |-> <<Slice(s, p, e - 1)>> \o rest.groups,
                     next |-> rest.next]
            ELSE [ok |-> FALSE, groups |-> <<>>, next |-> p]

\* One pattern: \b, n numbers and the operator's letters.
MatchAt(s, p, pat) ==
    LET m == MatchNumbers(s, p, pat.n)
        e == m.next + Len(pat.op) - 1
    IN IF WordBoundary(s, p) /\ m.ok /\ e <= Len(s)
          /\ Slice(s, m.next, e) = pat.op
       THEN [ok |-> TRUE, groups |-> m.groups, next |-> e + 1]
       ELSE [ok |-> FALSE, groups |-> <<>>, next |-> p]

\* re.findall(pattern, content_data): the leftmost matches, not overlapping.
\* With three groups a match is the tuple of the groups; with one group it is
\* the group's text itself.
RECURSIVE FindAllFrom(_, _, _)
FindAllFrom(s, p, pat) ==
    IF p > Len(s) THEN <<>>
    ELSE LET m == MatchAt(s, p, pat)
         IN IF m.ok
            THEN <<IF pat.n = 1 THEN m.groups[1] ELSE m.groups>>
                     \o FindAllFrom(s, m.next, pat)
            ELSE FindAllFrom(s, p + 1, pat)

color_patterns ==
    << [n |-> 3, op |-> <<"r", "g">>],
       [n |-> 3, op |-> <<"R", "G">>],
       [n |-> 1, op |-> <<"g">>],
       [n |-> 1, op |-> <<"G">>] >>

\* Lines 45-53 for one match of a three-group pattern: a tuple of three texts.
TripleOutcome(m) ==
    IF ~(NumEq(m[1], m[2]) /\ NumEq(m[2], m[3])) THEN "true" ELSE "next"

\* Lines 45-53 for one match of a one-group pattern: the match is a str, so
\* len(match) is the number of its characters and match[k] one character.
\* float(".") raises ValueError.
GrayOutcome(m) ==
    IF Len(m) = 3
    THEN IF \E k \in 1..3 : m[k] = "." THEN "raise"
         ELSE IF ~(DigitVal(m[1]) = DigitVal(m[2]) /\ DigitVal(m[2]) = DigitVal(m[3]))
              THEN "true" ELSE "next"
    ELSE "next"

MatchOutcome(pat, m) == IF pat.n = 3 THEN TripleOutcome(m) ELSE GrayOutcome(m)

\* The outcomes of lines 42-53 in the order the loops visit the matches.
ScanOutcomes(s) ==
    Concat([i \in 1..Len(color_patterns) |->
              LET ms == FindAllFrom(s, 1, color_patterns[i])
              IN [k \in 1..Len(ms) |-> MatchOutcome(color_patterns[i], ms[k])]])

\* The first outcome that ends the loops: "true" returns True (line 48),
\* "raise" leaves through the except of line 54; "next" when there is none.
RECURSIVE FirstDecisive(_)
FirstDecisive(os) ==
    IF os = <<>> THEN "next"
    ELSE IF Head(os) # "next" THEN Head(os) ELSE FirstDecisive(Tail(os))

\* Lines 25-32: content_data, or "raise" when the lines raise (get_data
\* fails, or content is neither a stream nor a list and content_data is
\* unbound at line 43).
ContentData(contents) ==
    CASE contents.kind = "stream" -> [ok |-> TRUE, data |-> contents.segs[1].data]
      [] contents.kind = "array" ->
            [ok |-> TRUE,
             data |-> Concat([k \in 1..Len(contents.segs) |->
                                IF contents.segs[k].has_get_data
                                THEN contents.segs[k].data ELSE <<>>])]
      [] OTHER -> [ok |-> FALSE, data |-> <<>>]

\* Lines 23-55: TRUE when the scan returns True.
VectorSignal(pg) ==
    IF pg.contents.kind = "absent" THEN FALSE
    ELSE LET cd == ContentData(pg.contents)
         IN cd.ok /\ FirstDecisive(ScanOutcomes(cd.data)) = "true"

----------------------------------------------------------------------------
(* Lines 79-89: the declared colorspace.                                   *)

\* s occurs in t (Python's "s in t" on str).
IsSubstring(s, t) ==
    \E k \in 0..(Len(t) - Len(s)) : Slice(t, k + 1, k + Len(s)) = s

ColorFamilies ==
    { <<"R", "G", "B">>, <<"L", "a", "b">>,
      <<"D", "e", "v", "i", "c", "e", "R", "G", "B">> }

\* Lines 81-89: what the colorspace of one image adds to has_color. A
\* colorspace is [kind |-> "none" | "name" | "list", names |-> the name, or
\* the elements of the array]; an absent colorspace and an empty array are
\* falsy (line 81).
DeclaresColor(colorspace) ==
    /\ colorspace.kind # "none"
    /\ colorspace.names # <<>>
    /\ \E cs \in ColorFamilies : IsSubstring(cs, colorspace.names[1])

----------------------------------------------------------------------------
(* Lines 105-149: the pixel tests. A decoded image is [h, w, pal]: h rows  *)
(* and w columns whose pixels, in row-major order, repeat the sequence pal *)
(* of <<R, G, B>> triples (pal is the whole raster when Len(pal) = h * w). *)

PixelAt(img, r, c) == img.pal[((r * img.w + c) % Len(img.pal)) + 1]

\* Lines 108-110: the stride of img_array[::step, ::step].
SampleStep(img) ==
    IF img.h * img.w > 1000000 THEN Max(1, Min(img.h, img.w) \div 100) ELSE 1

\* The (row, column) pairs img_array keeps.
SampledCoords(img) ==
    LET step == SampleStep(img)
    IN {r \in 0..(img.h - 1) : r % step = 0} \X {c \in 0..(img.w - 1) : c % step = 0}

\* Line 124.
TotalPixels(img) == Cardinality(SampledCoords(img))

\* count / total_pixels > sample_threshold * factor, with the threshold
\* <<num, den>> and the factor fnum / fden, total_pixels being positive.
FractionExceeds(count, total, st, fnum, fden) ==
    count * st[2] * fden > st[1] * fnum * total

\* Lines 116-122 with >= in place of >.
DiffMaskInclusive(px, ct) ==
    \/ Abs(px[1] - px[2]) >= ct
    \/ Abs(px[1] - px[3]) >= ct
    \/ Abs(px[2] - px[3]) >= ct

\* Lines 116-122.
DiffMask(px, ct) ==
    \/ Abs(px[1] - px[2]) > ct
    \/ Abs(px[1] - px[3]) > ct
    \/ Abs(px[2] - px[3]) > ct

\* Line 130, negated at line 131.
NonGrayMask(px) == ~(px[1] = px[2] /\ px[2] = px[3])

\* Line 138: (r > g * 0.8) & (g > b * 1.2) & (r > 100).
YellowMask(px) ==
    /\ 10 * px[1] > 8 * px[2]
    /\ 10 * px[2] > 12 * px[3]
    /\ px[1] > 100

\* Line 145: (b > r * 1.2) & (b > g * 1.2) & (b > 100).
BlueMask(px) ==
    /\ 10 * px[3] > 12 * px[1]
    /\ 10 * px[3] > 12 * px[2]
    /\ px[3] > 100

\* The mask of each test on one pixel.
MaskHolds(test, px, ct) ==
    CASE test = "diff" -> DiffMask(px, ct)
      [] test = "nongray" -> NonGrayMask(px)
      [] test = "yellow" -> YellowMask(px)
      [] test = "blue" -> BlueMask(px)

\* np.sum of a mask over img_array; the mask is named by its test.
CountPixels(img, test, ct) ==
    Cardinality({rc \in SampledCoords(img) :
                    MaskHolds(test, PixelAt(img, rc[1], rc[2]), ct)})

\* Lines 112-149: the test that returns True, or "none".
FiredTest(img, ct, st) ==
    LET total == TotalPixels(img)
    IN IF FractionExceeds(CountPixels(img, "diff", ct), total, st, 1, 1) THEN "diff"
       ELSE IF FractionExceeds(CountPixels(img, "nongray", ct), total, st, 1, 2)
       THEN "nongray"
       ELSE IF FractionExceeds(CountPixels(img, "yellow", ct), total, st, 1, 10)
       THEN "yellow"
       ELSE IF FractionExceeds(CountPixels(img, "blue", ct), total, st, 1, 10)
       THEN "blue"
       ELSE "none"

PixelTests == {"diff", "nongray", "yellow", "blue"}

----------------------------------------------------------------------------
(* Lines 65-158: one iteration of the XObject loop.                        *)
(*                                                                         *)
(* An XObject is [fault, subtype, width, height, colorspace, data] with    *)
(* data = [kind |-> "none"] (get_data returns nothing) or                  *)
(* [kind |-> "image", mode, img]. fault names the step of the iteration    *)
(* that raises, "none" when no step does:                                  *)
(*   "resolve"    xObject[obj_name] / get_object      (lines 66-68)        *)
(*   "subtype"    obj.get('/Subtype')                 (line 70)            *)
(*   "dims"       reading /Width, /Height             (lines 73-76)        *)
(*   "colorspace" reading /ColorSpace                 (lines 80-88)        *)
(*   "decode"     get_data, Image.open, convert       (lines 93-101)       *)
(*   "analyse"    np.array and the pixel tests        (lines 105-149)      *)

\* Lines 98-101: the mode after the conversions.
ModeAfterConvert(mode) ==
    IF mode \in {"RGBA", "CMYK", "LAB", "P"} THEN "RGB" ELSE mode

\* Line 153 reading a flag that holds the failed image's colorspace only.
FlagAtFailureOwn(hc_before, own) == own

\* Line 153: the flag the handler of a failed image reads, has_color: set by
\* this image (line 89) or left set by an earlier one (it is never reset).
FlagAtFailure(hc_before, own) == hc_before \/ own

\* The outcome of the iteration for obj, entered with has_color = hc:
\* next = "return" (return True), "continue" (next XObject) or "abort" (the
\* except of line 159 ends the loop).
XObjectOutcome(obj, hc, ct, st) ==
    LET Continue(h) == [next |-> "continue", has_color |-> h, why |-> "none"]
        Return(h, w) == [next |-> "return", has_color |-> h, why |-> w]
        own == DeclaresColor(obj.colorspace)
        hc2 == hc \/ own
        Failed == IF FlagAtFailure(hc, own) THEN Return(hc2, "decode_fail")
                  ELSE Continue(hc2)
    IN IF obj.fault \in {"resolve", "subtype"}
       THEN [next |-> "abort", has_color |-> hc, why |-> "none"]
       ELSE IF obj.subtype # "/Image" THEN Continue(hc)
       ELSE IF obj.fault = "dims" THEN Continue(hc)
       ELSE IF obj.width = 0 \/ obj.height = 0 THEN Continue(hc)
       ELSE IF obj.fault = "colorspace" THEN Continue(hc)
       ELSE IF obj.fault = "decode" THEN Failed
       ELSE IF obj.data.kind = "none" THEN Continue(hc2)
       ELSE IF ModeAfterConvert(obj.data.mode) # "RGB" THEN Continue(hc2)
       ELSE IF obj.fault = "analyse" THEN Failed
       ELSE LET t == FiredTest(obj.data.img, ct, st)
            IN IF t # "none" THEN Return(hc2, t) ELSE Continue(hc2)

\* Line 165 returning False whatever the flag.
FinalVerdictIgnoringFlag(hc) == FALSE

\* Line 165.
FinalVerdict(hc) == hc

----------------------------------------------------------------------------
(* is_color_page as a state machine.                                       *)

\* Lines 21-55.
ScanVectors ==
    /\ pc = "vectors"
    /\ IF VectorSignal(page)
       THEN /\ pc' = "done"
            /\ verdict' = TRUE
            /\ why' = "vector"
       ELSE /\ pc' = "images"
            /\ UNCHANGED <<verdict, why>>
    /\ UNCHANGED <<page, color_threshold, sample_threshold, idx, has_color, at>>
    /\ UNCHANGED figVars

\* Lines 65-158 for the XObject at idx.
ExamineXObject ==
    /\ pc = "images"
    /\ page.has_xobject
    /\ idx <= Len(page.xobjs)
    /\ LET o == XObjectOutcome(page.xobjs[idx], has_color, color_threshold,
                               sample_threshold)
       IN /\ has_color' = o.has_color
          /\ CASE o.next = "return" ->
                    /\ pc' = "done"
                    /\ verdict' = TRUE
                    /\ why' = o.why
                    /\ at' = idx
                    /\ idx' = idx
               [] o.next = "abort" ->
                    /\ pc' = "done"
                    /\ verdict' = FinalVerdict(o.has_color)
                    /\ why' = "aborted"
                    /\ at' = idx
                    /\ idx' = idx
               [] OTHER ->
                    /\ idx' = idx + 1
                    /\ UNCHANGED <<pc, verdict, why, at>>
    /\ UNCHANGED <<page, color_threshold, sample_threshold>>
    /\ UNCHANGED figVars

\* Lines 58-59 without /XObject, or the loop of line 65 exhausted; line 165.
ReturnHasColor ==
    /\ pc = "images"
    /\ ~page.has_xobject \/ idx > Len(page.xobjs)
    /\ pc' = "done"
    /\ verdict' = FinalVerdict(has_color)
    /\ why' = "end"
    /\ UNCHANGED <<page, color_threshold, sample_threshold, idx, has_color, at>>
    /\ UNCHANGED figVars

NextColor == ScanVectors \/ ExamineXObject \/ ReturnHasColor

----------------------------------------------------------------------------
(* The pages the specifications start from.                                *)
(*                                                                         *)
(* A page is [instrs, contents, has_xobject, xobjs]. instrs is what the    *)
(* content stream says, as the PDF syntax reads it: a sequence of          *)
(* [operands, op]; contents is the /Contents entry holding its text:       *)
(* [kind, segs] with kind "absent" (no /Contents), "stream" (one stream),  *)
(* "array" (a list of streams), "other" (neither) or "broken" (get_data    *)
(* raises).                                                                *)

MaxTripleOperandLen == 3
MaxGrayOperandLen == 3
MaxImages == 2
MaxPixels == 3

Texts(alphabet, n) == UNION {[1..k -> alphabet] : k \in 1..n}

TripleOperands == {t \in Texts({"0", "1", "."}, MaxTripleOperandLen) : IsPdfNumber(t)}
GrayOperands ==
    {t \in Texts({"0", "1", "2", "3", "5", "."}, MaxGrayOperandLen) : IsPdfNumber(t)}

RgbOps == {<<"r", "g">>, <<"R", "G">>}
GrayOps == {<<"g">>, <<"G">>}

\* The text of one instruction: its operands and its operator, separated by
\* single spaces.
RenderInstr(ins) ==
    Concat([k \in 1..Len(ins.operands) |-> ins.operands[k] \o <<" ">>]) \o ins.op

\* The text of a stream: one instruction per line.
RECURSIVE Render(_)
Render(instrs) ==
    IF instrs = <<>> THEN <<>>
    ELSE IF Len(instrs) = 1 THEN RenderInstr(instrs[1])
    ELSE RenderInstr(instrs[1]) \o <<"\n">> \o Render(Tail(instrs))

TripleInstrs(operands) ==
    {[operands |-> <<a, b, c>>, op |-> o] :
        a \in operands, b \in operands, c \in operands, o \in RgbOps}
GrayInstrs(operands) == {[operands |-> <<a>>, op |-> o] : a \in operands, o \in GrayOps}

FewOperands == {<<"0">>, <<"1">>, <<".", "1">>}
FewGrayOperands == {<<"1">>, <<"0", ".", "5">>, <<"1", "2", "3">>, <<"1", "1", "1">>}

\* Streams of two instructions: a gray operator followed by a gray operator
\* or an RGB triple, and an RGB triple followed by a gray operator.
TwoInstrLists ==
    {<<i, j>> : i \in GrayInstrs(FewGrayOperands),
                j \in GrayInstrs(FewGrayOperands) \cup TripleInstrs(FewOperands)}
    \cup {<<i, j>> : i \in TripleInstrs({<<"0">>, <<"1">>}), j \in GrayInstrs(FewGrayOperands)}

StreamOf(instrs) ==
    [kind |-> "stream", segs |-> <<[data |-> Render(instrs), has_get_data |-> TRUE]>>]

\* The same text split over two streams of an array, each with or without a
\* get_data attribute (line 31).
ArraysOf(instrs) ==
    LET text == Render(instrs)
    IN {[kind |-> "array",
         segs |-> <<[data |-> SubSeq(text, 1, k), has_get_data |-> g1],
                    [data |-> SubSeq(text, k + 1, Len(text)), has_get_data |-> g2]>>] :
            k \in 0..Len(text), g1 \in BOOLEAN, g2 \in BOOLEAN}

OtherContentsOf(instrs) ==
    {[kind |-> k, segs |-> <<[data |-> Render(instrs), has_get_data |-> FALSE]>>] :
        k \in {"other", "broken"}}

NoContents == [kind |-> "absent", segs |-> <<>>]

\* Colorspaces as PyPDF2 prints their names.
DeviceGray == [kind |-> "name", names |-> << <<"/", "D", "e", "v", "i", "c", "e", "G", "r", "a", "y">> >>]
DeviceRGB == [kind |-> "name", names |-> << <<"/", "D", "e", "v", "i", "c", "e", "R", "G", "B">> >>]
DeviceCMYK == [kind |-> "name", names |-> << <<"/", "D", "e", "v", "i", "c", "e", "C", "M", "Y", "K">> >>]
LabArray == [kind |-> "list", names |-> << <<"/", "L", "a", "b">> >>]
IndexedRGB ==
    [kind |-> "list",
     names |-> << <<"/", "I", "n", "d", "e", "x", "e", "d">>,
                  <<"/", "D", "e", "v", "i", "c", "e", "R", "G", "B">> >>]
NoColorSpace == [kind |-> "none", names |-> <<>>]
EmptyArray == [kind |-> "list", names |-> <<>>]

GrayImg == [h |-> 1, w |-> 2, pal |-> << <<0, 0, 0>>, <<200, 200, 200>> >>]
RedImg == [h |-> 1, w |-> 1, pal |-> << <<255, 0, 0>> >>]

Decoded(mode, img) == [kind |-> "image", mode |-> mode, img |-> img]
NoData == [kind |-> "none"]

XObject(fault, subtype, width, height, colorspace, data) ==
    [fault |-> fault, subtype |-> subtype, width |-> width, height |-> height,
     colorspace |-> colorspace, data |-> data]

Faults == {"resolve", "subtype", "dims", "colorspace", "decode", "analyse"}

\* The XObjects of the image specification: images that are handled without
\* an exception, images one of whose steps raises, images of size zero, and
\* a form XObject.
SoundImages ==
    {XObject("none", "/Image", 1, 1, cs, d) :
        cs \in {DeviceGray, DeviceRGB, LabArray, IndexedRGB, NoColorSpace, EmptyArray},
        d \in {Decoded("RGB", GrayImg), Decoded("RGB", RedImg), Decoded("L", GrayImg),
               NoData}}
    \cup {XObject("none", "/Image", 1, 1, DeviceCMYK, Decoded("CMYK", RedImg))}
FaultyImages ==
    {XObject(f, "/Image", 1, 1, cs, Decoded("RGB", RedImg)) :
        f \in Faults, cs \in {DeviceGray, DeviceRGB}}
ZeroImages ==
    {XObject("none", "/Image", wh[1], wh[2], DeviceRGB, Decoded("RGB", RedImg)) :
        wh \in {<<0, 1>>, <<1, 0>>}}
FormXObject == XObject("none", "/Form", 0, 0, NoColorSpace, NoData)

ImageKinds == SoundImages \cup FaultyImages \cup ZeroImages \cup {FormXObject}

Page(instrs, contents, xobjs) ==
    [instrs |-> instrs, contents |-> contents, has_xobject |-> TRUE, xobjs |-> xobjs]
NoXObjectPage(instrs, contents) ==
    [instrs |-> instrs, contents |-> contents, has_xobject |-> FALSE, xobjs |-> <<>>]

\* "whatever embedded images the page has": none, grayscale, coloured,
\* undecodable, zero-sized.
FewImageLists ==
    { <<>>,
      <<XObject("none", "/Image", 1, 1, DeviceGray, Decoded("RGB", GrayImg))>>,
      <<XObject("none", "/Image", 1, 1, DeviceRGB, Decoded("RGB", RedImg))>>,
      <<XObject("decode", "/Image", 1, 1, DeviceGray, NoData)>>,
      <<XObject("resolve", "/Image", 1, 1, DeviceGray, NoData)>>,
      <<XObject("none", "/Image", 0, 0, DeviceGray, Decoded("RGB", GrayImg))>> }

RedFill == <<[operands |-> <<<<"1">>, <<"0">>, <<"0">>>>, op |-> <<"r", "g">>]>>
BlackFill == <<[operands |-> <<<<"0">>, <<"0">>, <<"0">>>>, op |-> <<"r", "g">>]>>

\* The decoded rasters of the pixel specification: every raster of one row
\* and up to MaxPixels pixels over PixelKinds, and three rasters large enough
\* to be sampled (1001 x 1000, stride 10).
Levels == {0, 1, 100, 101, 255}
GrayPixels == {<<v, v, v>> : v \in Levels}
ColorPixels == { <<255, 0, 0>>, <<200, 180, 100>>, <<100, 100, 200>>,
                 <<100, 101, 100>>, <<104, 100, 100>> }
PixelKinds == GrayPixels \cup ColorPixels

Raster(pal) == [h |-> 1, w |-> Len(pal), pal |-> pal]
LargeRasters ==
    {[h |-> 1001, w |-> 1000, pal |-> p] :
        p \in { << <<101, 101, 101>> >>,
                << <<255, 0, 0>>, <<0, 0, 0>> >>,
                << <<0, 0, 0>>, <<255, 0, 0>> >> }}

ColorThresholds == {0, 3, 255}
SampleThresholds == {<<0, 1>>, <<1, 1000>>, <<1, 2>>, <<1, 1>>}

\* The defaults of line 7.
DefaultColorThreshold == 3
DefaultSampleThreshold == <<1, 1000>>

FigIdle ==
    /\ doc = "none"
    /\ page_offset = 0
    /\ fpc = "idle"
    /\ page_num = 0
    /\ figure_pages = <<>>
    /\ all_figures = <<>>
    /\ report = <<>>
    /\ front_report = <<>>
    /\ console = <<>>
    /\ result = "none"
    /\ escaped = FALSE

ColorIdle ==
    /\ page = "none"
    /\ color_threshold = DefaultColorThreshold
    /\ sample_threshold = DefaultSampleThreshold
    /\ pc = "idle"
    /\ idx = 1
    /\ has_color = FALSE
    /\ verdict = "none"
    /\ why = "none"
    /\ at = 0

\* The state at the entry of find_figure_pages (lines 232-233).
FigEntry ==
    /\ fpc = "open"
    /\ page_num = 0
    /\ figure_pages = <<>>
    /\ all_figures = <<>>
    /\ report = <<>>
    /\ front_report = <<>>
    /\ console = <<>>
    /\ result = "none"
    /\ escaped = FALSE
    /\ ColorIdle

\* The state at the entry of is_color_page (line 19).
ColorEntry ==
    /\ pc = "vectors"
    /\ idx = 1
    /\ has_color = FALSE
    /\ verdict = "none"
    /\ why = "none"
    /\ at = 0
    /\ FigIdle

\* Pages whose stream holds one RGB triple or one gray operator over every
\* operand text, or two instructions, with each of a few image lists; and a
\* red fill behind each kind of /Contents entry.
InitVector ==
    /\ \/ \E a \in TripleOperands, b \in TripleOperands, c \in TripleOperands,
             o \in RgbOps, xs \in FewImageLists :
             LET ins == <<[operands |-> <<a, b, c>>, op |-> o]>>
             IN page = Page(ins, StreamOf(ins), xs)
       \/ \E a \in GrayOperands, o \in GrayOps, xs \in FewImageLists :
             LET ins == <<[operands |-> <<a>>, op |-> o]>>
             IN page = Page(ins, StreamOf(ins), xs)
       \/ \E ins \in TwoInstrLists, xs \in FewImageLists :
             page = Page(ins, StreamOf(ins), xs)
       \/ \E ins \in {RedFill, BlackFill} : page = NoXObjectPage(ins, StreamOf(ins))
       \/ \E c \in ArraysOf(RedFill) \cup OtherContentsOf(RedFill) :
             page = Page(RedFill, c, <<>>)
       \/ page = Page(<<>>, NoContents, <<>>)
    /\ color_threshold = DefaultColorThreshold
    /\ sample_threshold = DefaultSampleThreshold
    /\ ColorEntry

\* Pages without a vector signal holding every list of up to MaxImages
\* XObjects, and a red fill before each single XObject.
InitImages ==
    /\ \/ \E k \in 0..MaxImages : \E xs \in [1..k -> ImageKinds] :
             \/ page = Page(BlackFill, StreamOf(BlackFill), xs)
             \/ page = Page(<<>>, NoContents, xs)
       \/ \E x \in ImageKinds : page = Page(RedFill, StreamOf(RedFill), <<x>>)
       \/ page = NoXObjectPage(<<>>, NoContents)
    /\ color_threshold = DefaultColorThreshold
    /\ sample_threshold = DefaultSampleThreshold
    /\ ColorEntry

\* Pages holding one image, of declared width 0 or 1, with every pair of
\* thresholds: the uniform rasters of every gray level 0..255, every raster
\* over PixelKinds, and the large rasters.
InitPixels ==
    /\ \E w \in {0, 1} :
          \/ \E n \in 1..MaxPixels : \E v \in 0..255 :
                page = Page(<<>>, NoContents,
                            <<XObject("none", "/Image", w, 1, DeviceGray,
                                      Decoded("RGB", Raster([k \in 1..n |-> <<v, v, v>>])))>>)
          \/ \E n \in 1..MaxPixels : \E pal \in [1..n -> PixelKinds] :
                page = Page(<<>>, NoContents,
                            <<XObject("none", "/Image", w, 1, DeviceGray,
                                      Decoded("RGB", Raster(pal)))>>)
          \/ \E img \in LargeRasters :
                page = Page(<<>>, NoContents,
                            <<XObject("none", "/Image", w, 1, DeviceGray,
                                      Decoded("RGB", img))>>)
    /\ color_threshold \in ColorThresholds
    /\ sample_threshold \in SampleThresholds
    /\ ColorEntry

SpecVector == InitVector /\ [][NextColor]_vars
SpecImages == InitImages /\ [][NextColor]_vars
SpecPixels == InitPixels /\ [][NextColor]_vars

----------------------------------------------------------------------------
(* extract_figure_info, lines 177-204.                                     *)

\* re.IGNORECASE on the letters of the pattern's literal.
Lower(c) ==
    CASE c = "F" -> "f" [] c = "I" -> "i" [] c = "G" -> "g"
      [] c = "U" -> "u" [] c = "R" -> "r" [] c = "E" -> "e"
      [] OTHER -> c

FigureLiteral == <<"f", "i", "g", "u", "r", "e">>

\* \d+ from p: the first position after the run of digits.
RECURSIVE DigitsEnd(_, _)
DigitsEnd(s, p) == IF p <= Len(s) /\ s[p] \in Digits THEN DigitsEnd(s, p + 1) ELSE p

\* [^\n\r]* from p: the first position holding a line break, or the end.
RECURSIVE LineEnd(_, _)
LineEnd(s, p) == IF p <= Len(s) /\ s[p] \notin {"\n", "\r"} THEN LineEnd(s, p + 1) ELSE p

\* Line 186: Figure\s+(\d+)-(\d+)\.?\s*([^\n\r]*) at position p. Every
\* quantifier is greedy and what follows it cannot start with what it
\* consumes (or can match nothing), so the first attempt is the match.
FigureMatchAt(s, p) ==
    LET lit == p + Len(FigureLiteral) - 1
        q == SpaceEnd(s, lit + 1)
        c == DigitsEnd(s, q)
        i == DigitsEnd(s, c + 1)
        dot == IF i <= Len(s) /\ s[i] = "." THEN i + 1 ELSE i
        cap == SpaceEnd(s, dot)
        e == LineEnd(s, cap)
    IN IF /\ lit <= Len(s)
          /\ [k \in 1..Len(FigureLiteral) |-> Lower(s[p + k - 1])] = FigureLiteral
          /\ q > lit + 1
          /\ c > q
          /\ c <= Len(s) /\ s[c] = "-"
          /\ i > c + 1
       THEN [ok |-> TRUE,
             groups |-> <<Slice(s, q, c - 1), Slice(s, c + 1, i - 1), Slice(s, cap, e - 1)>>,
             next |-> e]
       ELSE [ok |-> FALSE, groups |-> <<>>, next |-> p]

\* Line 188: re.findall(figure_pattern, text, re.IGNORECASE).
RECURSIVE FindFigures(_, _)
FindFigures(s, p) ==
    IF p > Len(s) THEN <<>>
    ELSE LET m == FigureMatchAt(s, p)
         IN IF m.ok THEN <<m.groups>> \o FindFigures(s, m.next)
            ELSE FindFigures(s, p + 1)

\* str.strip(): white space removed at both ends.
RECURSIVE LStrip(_)
LStrip(t) == IF t # <<>> /\ IsSpace(Head(t)) THEN LStrip(Tail(t)) ELSE t
RECURSIVE RStrip(_)
RStrip(t) ==
    IF t # <<>> /\ IsSpace(t[Len(t)]) THEN RStrip(SubSeq(t, 1, Len(t) - 1)) ELSE t
Strip(t) == RStrip(LStrip(t))

\* str.rstrip('.'): the periods at the end removed.
RECURSIVE RStripPeriods(_)
RStripPeriods(t) ==
    IF t # <<>> /\ t[Len(t)] = "." THEN RStripPeriods(SubSeq(t, 1, Len(t) - 1)) ELSE t

\* Line 198: f"{chapter_num}-{image_num}".
FigureNumber(chapter_num, image_num) == chapter_num \o <<"-">> \o image_num

\* Lines 191-199 over the matches, in order.
RECURSIVE CollectFigures(_)
CollectFigures(matches) ==
    IF matches = <<>> THEN <<>>
    ELSE LET m == Head(matches)
             caption == Strip(m[3])
         IN (IF caption # <<>>
             THEN << <<FigureNumber(m[1], m[2]), RStripPeriods(caption)>> >>
             ELSE <<>>)
            \o CollectFigures(Tail(matches))

\* extract_figure_info(page): a page is [kind |-> "text", text] or
\* [kind |-> "raise"] when extract_text raises (line 203).
extract_figure_info(pg) ==
    IF pg.kind = "raise" \/ pg.text = <<>> THEN <<>>
    ELSE CollectFigures(FindFigures(pg.text, 1))

----------------------------------------------------------------------------
(* find_figure_pages, lines 232-314.                                       *)

\* int(text) for a text of digits.
RECURSIVE IntOf(_)
IntOf(t) ==
    IF t = <<>> THEN 0
    ELSE 10 * IntOf(SubSeq(t, 1, Len(t) - 1)) + DigitVal(t[Len(t)])

\* str.split('-').
RECURSIVE Split(_)
Split(t) ==
    IF \E k \in 1..Len(t) : t[k] = "-"
    THEN LET k == CHOOSE j \in 1..Len(t) : t[j] = "-" /\ \A l \in 1..(j - 1) : t[l] # "-"
         IN <<SubSeq(t, 1, k - 1)>> \o Split(SubSeq(t, k + 1, Len(t)))
    ELSE <<t>>

\* The code point of a character of a figure number.
CharCode(c) == IF c = "-" THEN 45 ELSE 48 + DigitVal(c)

\* Lines 287-289 with the figure number itself as the key: the order of str.
sort_key_text(fig) ==
    [k \in 1..Len(fig.figure_number) |-> CharCode(fig.figure_number[k])]

\* Lines 287-289.
sort_key(fig) ==
    LET parts == Split(fig.figure_number)
    IN <<IntOf(parts[1]), IntOf(parts[2])>>

\* Python's < on two tuples of integers.
RECURSIVE TupleLess(_, _)
TupleLess(a, b) ==
    IF a = <<>> THEN b # <<>>
    ELSE IF b = <<>> THEN FALSE
    ELSE IF Head(a) # Head(b) THEN Head(a) < Head(b)
    ELSE TupleLess(Tail(a), Tail(b))

\* x placed after the elements of the sorted list whose key is not greater.
RECURSIVE InsertByKey(_, _)
InsertByKey(sorted, x) ==
    IF sorted = <<>> THEN <<x>>
    ELSE IF TupleLess(sort_key(x), sort_key(Head(sorted))) THEN <<x>> \o sorted
    ELSE <<Head(sorted)>> \o InsertByKey(Tail(sorted), x)

\* Line 291: sorted(book_figures, key=sort_key), a stable sort.
RECURSIVE SortedFigures(_)
SortedFigures(figs) ==
    IF figs = <<>> THEN <<>>
    ELSE InsertByKey(SortedFigures(SubSeq(figs, 1, Len(figs) - 1)), figs[Len(figs)])

\* Line 245 computed from the 0-based page_num.
BookPageNumberZeroBased(pdf_page_num, offset) == pdf_page_num - 1 - offset

\* Line 245.
BookPageNumber(pdf_page_num, offset) == pdf_page_num - offset

\* Lines 270-271.
IsBook(fig) == fig.book_page > 0
IsFront(fig) == fig.book_page <= 0
BookFigures(figs) == SelectSeq(figs, IsBook)
FrontFigures(figs) == SelectSeq(figs, IsFront)

\* Lines 252-258.
Records(figs, pdf_page_num, book_page_num) ==
    [k \in 1..Len(figs) |->
        [figure_number |-> figs[k][1], caption |-> figs[k][2],
         pdf_page |-> pdf_page_num, book_page |-> book_page_num]]

\* The base class of each exception class the steps raise.
BaseOf(cls) ==
    CASE cls = "FileNotFoundError" -> "OSError"
      [] cls = "PermissionError" -> "OSError"
      [] cls = "OSError" -> "Exception"
      [] cls = "PdfReadError" -> "PyPdfError"
      [] cls = "PyPdfError" -> "Exception"
      [] cls = "KeyError" -> "LookupError"
      [] cls = "LookupError" -> "Exception"
      [] cls = "Exception" -> "BaseException"
      [] OTHER -> "object"

RECURSIVE IsSubclass(_, _)
IsSubclass(cls, base) ==
    \/ cls = base
    \/ cls # "object" /\ IsSubclass(BaseOf(cls), base)

\* Line 312: except Exception.
Caught(exc) == IsSubclass(exc, "Exception")

\* Line 314 returning the pages collected before the failure.
ErrorResultPartial(pages_so_far) == pages_so_far

\* Line 314.
ErrorResult(pages_so_far) == <<>>

\* Lines 312-314, or the exception leaving the function.
Handle(exc) ==
    IF Caught(exc)
    THEN /\ console' = Append(console, "error")
         /\ result' = ErrorResult(figure_pages)
         /\ escaped' = FALSE
    ELSE /\ console' = console
         /\ result' = "none"
         /\ escaped' = TRUE

\* doc is [pages, fault], fault = [at, exc, page]: at names the step that
\* raises exc ("none": no step), page the page whose access raises.

\* Lines 235-240.
OpenPdf ==
    /\ fpc = "open"
    /\ IF doc.fault.at \in {"open", "parse"}
       THEN /\ Handle(doc.fault.exc)
            /\ fpc' = "returned"
       ELSE /\ console' = Append(console, "analyzing")
            /\ fpc' = "scan"
            /\ UNCHANGED <<result, escaped>>
    /\ UNCHANGED <<doc, page_offset, page_num, figure_pages, all_figures, report,
                   front_report>>
    /\ UNCHANGED colorVars

\* Lines 242-267 for one page.
ScanPage ==
    /\ fpc = "scan"
    /\ page_num < Len(doc.pages)
    /\ IF doc.fault.at = "page" /\ doc.fault.page = page_num + 1
       THEN /\ Handle(doc.fault.exc)
            /\ fpc' = "returned"
            /\ UNCHANGED <<page_num, figure_pages, all_figures>>
       ELSE LET pdf_page_num == page_num + 1
                book_page_num == BookPageNumber(pdf_page_num, page_offset)
                figures_on_page == extract_figure_info(doc.pages[pdf_page_num])
                found == IF figures_on_page = <<>> THEN <<>>
                         ELSE IF book_page_num > 0 THEN <<"book page">>
                         ELSE <<"front matter">>
                progress == IF (page_num + 1) % 50 = 0 THEN <<"progress">> ELSE <<>>
            IN /\ figure_pages' = IF figures_on_page # <<>>
                                  THEN Append(figure_pages, book_page_num)
                                  ELSE figure_pages
               /\ all_figures' = all_figures
                                   \o Records(figures_on_page, pdf_page_num, book_page_num)
               /\ console' = console \o found \o progress
               /\ page_num' = page_num + 1
               /\ UNCHANGED <<fpc, result, escaped>>
    /\ UNCHANGED <<doc, page_offset, report, front_report>>
    /\ UNCHANGED colorVars

\* Lines 269-310.
WriteReport ==
    /\ fpc = "scan"
    /\ page_num = Len(doc.pages)
    /\ fpc' = "returned"
    /\ IF doc.fault.at = "write"
       THEN /\ Handle(doc.fault.exc)
            /\ UNCHANGED <<report, front_report>>
       ELSE /\ report' = SortedFigures(BookFigures(all_figures))
            /\ front_report' = FrontFigures(all_figures)
            /\ console' = console \o <<"complete", "total", "book", "front", "saved">>
            /\ result' = [k \in 1..Len(BookFigures(all_figures)) |->
                            BookFigures(all_figures)[k].book_page]
            /\ UNCHANGED escaped
    /\ UNCHANGED <<doc, page_offset, page_num, figure_pages, all_figures>>
    /\ UNCHANGED colorVars

NextFigures == OpenPdf \/ ScanPage \/ WriteReport

----------------------------------------------------------------------------
(* The documents the figure specifications start from.                     *)

MaxPages == 3
MaxTailLen == 4

TextPage(t) == [kind |-> "text", text |-> t]
UnreadablePage == [kind |-> "raise", text |-> <<>>]

FigureWord == <<"F", "i", "g", "u", "r", "e">>

\* "<word> <chapter>-<index><tail>".
FigureText(word, chapter, index, tail) ==
    word \o <<" ">> \o chapter \o <<"-">> \o index \o tail

NoFault == [at |-> "none", exc |-> "none", page |-> 0]
Doc(pages, fault) == [pages |-> pages, fault |-> fault]

\* Pages of the report specification: no text, one captioned figure out of
\* chapters 2 and 10 and indexes 1, 9 and 10, two figures, unreadable text.
ReportPageKinds ==
    {TextPage(<<>>), UnreadablePage,
     TextPage(FigureText(FigureWord, <<"2">>, <<"1", "0">>, <<" ", "a", "\n">>)
              \o FigureText(FigureWord, <<"2">>, <<"9">>, <<".", " ", "b">>))}
    \cup {TextPage(FigureText(FigureWord, c, i, <<".", " ", "a", ".">>)) :
            c \in {<<"2">>, <<"1", "0">>}, i \in {<<"1">>, <<"9">>, <<"1", "0">>}}

CaptionedPage == TextPage(FigureText(FigureWord, <<"2">>, <<"9">>, <<" ", "a">>))

Failures ==
    {[at |-> "open", exc |-> e, page |-> 0] : e \in {"FileNotFoundError", "PermissionError"}}
    \cup {[at |-> "parse", exc |-> "PdfReadError", page |-> 0]}
    \cup {[at |-> "page", exc |-> e, page |-> k] : e \in {"PdfReadError", "KeyError"}, k \in 1..2}
    \cup {[at |-> "write", exc |-> "PermissionError", page |-> 0]}

\* A document of 50 pages with figures on some of the pages 1, 33, 34, 40.
LongDocs ==
    {Doc([k \in 1..50 |-> IF k \in S THEN CaptionedPage ELSE TextPage(<<>>)], NoFault) :
        S \in SUBSET {1, 33, 34, 40}}

InitReport ==
    /\ \/ /\ \E k \in 0..MaxPages : \E ps \in [1..k -> ReportPageKinds] :
                doc = Doc(ps, NoFault)
          /\ page_offset \in {-1, 0, 1, 2}
       \/ /\ doc \in {Doc(<<CaptionedPage, CaptionedPage>>, f) : f \in Failures}
          /\ page_offset \in {0, 1}
       \/ /\ doc \in LongDocs
          /\ page_offset = 33
    /\ FigEntry

\* Pages of the extractor specification: one figure reference followed by
\* every tail of up to MaxTailLen characters, and two references.
Tails(n) == {<<>>} \cup Texts({".", " ", "a", "\n"}, n)
ExtractTexts ==
    {FigureText(w, <<"1">>, <<"2">>, t) :
        w \in {FigureWord, FigureLiteral}, t \in Tails(MaxTailLen)}
    \cup {FigureText(FigureWord, <<"1">>, <<"2">>, t1) \o <<"\n">>
            \o FigureText(FigureWord, <<"3">>, <<"4">>, t2) :
            t1 \in Tails(2), t2 \in Tails(2)}
    \cup {<<>>, <<"a">>, FigureWord \o <<" ", "1", "-">>}

InitExtract ==
    /\ \/ doc \in {Doc(<<TextPage(t)>>, NoFault) : t \in ExtractTexts}
       \/ doc = Doc(<<UnreadablePage>>, NoFault)
    /\ page_offset \in {0, 1}
    /\ FigEntry

SpecReport == InitReport /\ [][NextFigures]_vars
SpecExtract == InitExtract /\ [][NextFigures]_vars

----------------------------------------------------------------------------
(* The claims about is_color_page.                                         *)

\* What the content stream says: some RGB fill or stroke whose three
\* components are not all equal as numbers.
HasColorTriple(pg) ==
    \E k \in 1..Len(pg.instrs) :
        LET ins == pg.instrs[k]
        IN /\ ins.op \in RgbOps
           /\ ~(NumEq(ins.operands[1], ins.operands[2])
                /\ NumEq(ins.operands[2], ins.operands[3]))

HasGrayOperator(pg) == \E k \in 1..Len(pg.instrs) : pg.instrs[k].op \in GrayOps

NoImages(pg) == ~pg.has_xobject \/ pg.xobjs = <<>>

\* C1: a page whose content stream (a single stream) holds an RGB triple with
\* unequal components is classified as coloured, whatever its images and its
\* gray operators.
C1_UnequalTripleIsPositive ==
    (pc = "done" /\ page.contents.kind = "stream" /\ HasColorTriple(page))
        => verdict = TRUE

\* Every XObject of the page is an image that is read and decoded without
\* an exception.
AllDecode(pg) ==
    \A k \in 1..Len(pg.xobjs) :
        /\ pg.xobjs[k].fault = "none"
        /\ pg.xobjs[k].subtype = "/Image"
        /\ pg.xobjs[k].data.kind = "image"

\* Some image of non-zero size declares a colour-family colorspace.
SomeImageDeclaresColor(pg) ==
    \E k \in 1..Len(pg.xobjs) :
        /\ pg.xobjs[k].width # 0
        /\ pg.xobjs[k].height # 0
        /\ DeclaresColor(pg.xobjs[k].colorspace)

Flagged(obj) ==
    /\ obj.subtype = "/Image"
    /\ obj.fault \notin {"resolve", "subtype", "dims", "colorspace"}
    /\ obj.width # 0
    /\ obj.height # 0
    /\ DeclaresColor(obj.colorspace)

\* An image whose decoding or analysis raises (lines 93-149).
FailsInTry(obj) ==
    /\ obj.subtype = "/Image"
    /\ obj.width # 0
    /\ obj.height # 0
    /\ \/ obj.fault = "decode"
       \/ /\ obj.fault = "analyse"
          /\ obj.data.kind = "image"
          /\ ModeAfterConvert(obj.data.mode) = "RGB"

C4_GrayOperatorNeverPositive ==
    (/\ pc = "done"
     /\ page.contents.kind = "stream"
     /\ NoImages(page)
     /\ HasGrayOperator(page)
     /\ ~HasColorTriple(page))
        => verdict = FALSE

\* An image that, handled on its own, is analysed and passes a pixel test.
PassesPixelTest(obj, ct, st) ==
    /\ obj.fault = "none"
    /\ obj.subtype = "/Image"
    /\ obj.width # 0
    /\ obj.height # 0
    /\ obj.data.kind = "image"
    /\ ModeAfterConvert(obj.data.mode) = "RGB"
    /\ FiredTest(obj.data.img, ct, st) # "none"

\* C5: whatever step of an earlier XObject raises, a later image that passes
\* a pixel test is still examined and makes the verdict true.
C5_LaterImagesStillExamined ==
    (/\ pc = "done"
     /\ \E k \in 1..Len(page.xobjs) :
            PassesPixelTest(page.xobjs[k], color_threshold, sample_threshold))
        => verdict = TRUE

IsGrayRaster(img) ==
    \A k \in 1..Len(img.pal) : img.pal[k][1] = img.pal[k][2] /\ img.pal[k][2] = img.pal[k][3]

\* C9: for a decoded image all of whose pixels have R = G = B, no pixel test
\* returns True, for every color_threshold >= 0 and sample_threshold >= 0; the
\* page (no vector signal, no colour colorspace) gets the verdict false.
C9_GrayImageFiresNoTest ==
    (pc = "done" /\ IsGrayRaster(page.xobjs[1].data.img))
        => (why \notin PixelTests /\ verdict = FALSE)

C9_Witness ==
    /\ pc = "done"
    /\ idx = 2
    /\ page.xobjs[1].width = 1
    /\ IsGrayRaster(page.xobjs[1].data.img)
    /\ page.xobjs[1].data.img.w = MaxPixels
    /\ \E k \in 1..MaxPixels : page.xobjs[1].data.img.pal[k] = <<255, 255, 255>>
    /\ \E k \in 1..MaxPixels : page.xobjs[1].data.img.pal[k] = <<101, 101, 101>>
    /\ color_threshold = 0
    /\ sample_threshold = <<0, 1>>
    /\ verdict = FALSE

----------------------------------------------------------------------------
(* The claims about find_figure_pages and extract_figure_info.             *)

Count(seq, x) == Cardinality({k \in 1..Len(seq) : seq[k] = x})

\* C6: when a step fails, the error is caught once at top level: no exception
\* leaves find_figure_pages, one error message is printed and the empty list
\* is returned; without a failure no error message is printed.
C6_ErrorsCaughtAtTopLevel ==
    /\ ~escaped
    /\ Count(console, "error") <= 1
    /\ fpc = "returned" =>
          IF doc.fault.at # "none"
          THEN result = <<>> /\ Count(console, "error") = 1
          ELSE Count(console, "error") = 0

C6_Witness ==
    /\ fpc = "returned"
    /\ doc.fault.at = "page"
    /\ doc.fault.page = 2
    /\ figure_pages # <<>>
    /\ Len(console) = 3
    /\ result = <<>>

\* C7: every record collected has book_page = pdf_page - page_offset, with
\* pdf_page the 1-based number of a page scanned so far on which the figure
\* stands; the records split exactly into book content (book_page > 0) and
\* front matter (book_page <= 0).
C7_BookPageAndPartition ==
    /\ \A k \in 1..Len(all_figures) :
          LET r == all_figures[k]
          IN /\ r.pdf_page \in 1..page_num
             /\ r.book_page = r.pdf_page - page_offset
             /\ \E j \in 1..Len(extract_figure_info(doc.pages[r.pdf_page])) :
                    extract_figure_info(doc.pages[r.pdf_page])[j]
                        = <<r.figure_number, r.caption>>
    /\ Len(BookFigures(all_figures)) + Len(FrontFigures(all_figures)) = Len(all_figures)
    /\ \A k \in 1..Len(BookFigures(all_figures)) : BookFigures(all_figures)[k].book_page > 0
    /\ \A k \in 1..Len(FrontFigures(all_figures)) : FrontFigures(all_figures)[k].book_page <= 0

C7_Witness ==
    /\ fpc = "returned"
    /\ page_offset = 33
    /\ \E k \in 1..Len(report) : report[k].pdf_page = 40 /\ report[k].book_page = 7
    /\ \E k \in 1..Len(front_report) :
          front_report[k].pdf_page = 33 /\ front_report[k].book_page = 0

\* C8: no record collected from extract_figure_info has an empty caption.
C8_NoEmptyCaption == \A k \in 1..Len(all_figures) : all_figures[k].caption # <<>>

\* (chapter, index) of a figure number, read as decimal numbers around "-".
ChapterIndex(fn) ==
    LET d == CHOOSE k \in 1..Len(fn) : fn[k] = "-"
    IN <<Mantissa(SubSeq(fn, 1, d - 1)), Mantissa(SubSeq(fn, d + 1, Len(fn)))>>

NotAfter(a, b) == a[1] < b[1] \/ (a[1] = b[1] /\ a[2] <= b[2])

\* C10: the figures written to "Detailed Figure Information" are the
\* book-content records, each as often as collected, in ascending order of
\* (chapter, index) compared as numbers.
C10_ReportSortedNumerically ==
    (fpc = "returned" /\ doc.fault.at = "none") =>
        /\ Len(report) = Len(BookFigures(all_figures))
        /\ \A k \in 1..Len(report) :
              Count(report, report[k]) = Count(BookFigures(all_figures), report[k])
        /\ \A k \in 1..(Len(report) - 1) :
              NotAfter(ChapterIndex(report[k].figure_number),
                       ChapterIndex(report[k + 1].figure_number))

C10_Witness ==
    /\ fpc = "returned"
    /\ Len(all_figures) = 3
    /\ all_figures[1].figure_number = <<"1", "0", "-", "1">>
    /\ all_figures[2].figure_number = <<"2", "-", "1", "0">>
    /\ all_figures[3].figure_number = <<"2", "-", "9">>
    /\ [k \in 1..Len(report) |-> report[k].figure_number]
          = << <<"2", "-", "9">>, <<"2", "-", "1", "0">>, <<"1", "0", "-", "1">> >>

====
